---- MODULE Spec2Model ----
(***************************************************************************)
(* A model of phase_portrait.py: the arrow placement of                    *)
(* PhasePortrait.plot_trajectory, the batch loop of                        *)
(* PhasePortrait.plot_trajectories over InitialCondition records, and the  *)
(* file naming of PhasePortrait.save (sequential and with two processes).  *)
(*                                                                         *)
(* Python values are represented as follows.  An Optional is a sequence of *)
(* length at most one (None is <<>>, a value v is <<v>>).  A list or array *)
(* is a sequence; Python's 0-based and negative indexing is PyGet.  A      *)
(* string that the code takes apart (a file name) is a sequence of         *)
(* one-character strings.                                                  *)
(***************************************************************************)
EXTENDS Integers, Sequences, FiniteSets

VARIABLES
    args,         \* plot_trajectory: the arguments of the call
    ax,           \* self.ax: the artists drawn so far, in drawing order
    pc,           \* position of the caller / of the running call
    err,          \* the exception the last call ended with, or "none"
    ics,          \* plot_trajectories: the list of InitialCondition objects
    constructed,  \* the same objects as InitialCondition.__init__ left them
    invocations,  \* the t_eval argument of every plot_trajectories call so far
    pos,          \* 1-based position of the loop of plot_trajectories in the list
    solved,       \* every solve_ivp call so far, with its arguments
    dir_exists,   \* save: os.path.exists(path)
    files,        \* save: the directory, file name -> content
    files0,       \* the directory as it was before the first save
    saved,        \* every savefig so far: who wrote which name
    proc          \* save with two processes: each process's locals and position

vars == <<args, ax, pc, err, ics, constructed, invocations, pos, solved,
          dir_exists, files, files0, saved, proc>>

(***************************************************************************)
(* Python values                                                           *)
(***************************************************************************)
None == <<>>

Some(v) == <<v>>

IsNone(o) == o = <<>>

Get(o) == o[1]

\* len(seq) > i >= -len(seq): the indices for which seq[i] does not raise
\* IndexError (list and numpy indexing alike).
InRange(seq, i) == i < Len(seq) /\ i >= -Len(seq)

\* seq[i] as Python evaluates it: a negative index counts from the end.
PyGet(seq, i) == IF i >= 0 THEN seq[i + 1] ELSE seq[Len(seq) + i + 1]

\* seq[0] and seq[-1]
First(seq) == PyGet(seq, 0)

Last(seq) == PyGet(seq, -1)

(***************************************************************************)
(* PhasePortrait.plot_trajectory                                           *)
(***************************************************************************)
\* Lines 70-72: is_reverse.
IsReverse(t_eval) == ~IsNone(t_eval) /\ First(Get(t_eval)) > Last(Get(t_eval))

\* Line 75: self.ax.plot(x, y, color=color).
LineArtist(x, y, color) == [kind |-> "line", x |-> x, y |-> y, color |-> color]

\* Lines 79-85 and 89-99: the arrow annotate() draws from xytext (tail) to xy
\* (head), the two swapped under is_reverse.
ArrowArtist(x, y, idx, is_reverse, arrow_color) ==
    LET xy     == <<PyGet(x, idx), PyGet(y, idx)>>
        xytext == <<PyGet(x, idx - 2), PyGet(y, idx - 2)>>
    IN  [kind   |-> "arrow",
         xy     |-> IF is_reverse THEN xytext ELSE xy,
         xytext |-> IF is_reverse THEN xy ELSE xytext,
         color  |-> arrow_color]

\* Lines 78-100: the loop, `left` iterations from index idx on.  The reads of
\* lines 79-80 come before the test of line 87, so an index past the end
\* raises IndexError there; the arrows drawn before it stay on the axes.
RECURSIVE ArrowLoop(_, _, _, _, _, _, _, _)
ArrowLoop(x, y, idx, left, arrow_span, is_reverse, arrow_color, drawn) ==
    IF left = 0
    THEN [drawn |-> drawn, err |-> "none"]
    ELSE IF ~InRange(x, idx) \/ ~InRange(y, idx)
              \/ ~InRange(x, idx - 2) \/ ~InRange(y, idx - 2)
    THEN [drawn |-> drawn, err |-> "IndexError"]
    ELSE IF idx >= Len(x)
    THEN ArrowLoop(x, y, idx, left - 1, arrow_span, is_reverse, arrow_color, drawn)
    ELSE ArrowLoop(x, y, idx + arrow_span, left - 1, arrow_span, is_reverse,
                   arrow_color,
                   Append(drawn, ArrowArtist(x, y, idx, is_reverse, arrow_color)))

\* Lines 70-100: what one call draws, and how it ends.
PlotTrajectoryResult(solution, color, arrow_span, arrow_color, number_of_arrow, t_eval) ==
    LET x == solution[1]
        y == solution[2]
        r == ArrowLoop(x, y, arrow_span, number_of_arrow, arrow_span,
                       IsReverse(t_eval), arrow_color, <<>>)
    IN  [drawn |-> <<LineArtist(x, y, color)>> \o r.drawn, err |-> r.err]

(***************************************************************************)
(* InitialCondition and PhasePortrait.plot_trajectories                    *)
(***************************************************************************)
\* Lines 7-10.  A config is a dict or, as the annotation of line 27 allows,
\* a list of dicts.
DEFAULT_CONFIG == [kind |-> "dict", arrow_span |-> 20, number_of_arrow |-> 1]

\* Lines 19-37: InitialCondition.__init__; config is an Optional.
InitialCondition(point, t_eval, rtol, atol, color, arrow_color, config) ==
    [point       |-> point,
     t_eval      |-> t_eval,
     rtol        |-> rtol,
     atol        |-> atol,
     color       |-> color,
     arrow_color |-> arrow_color,
     config      |-> IF IsNone(config) THEN DEFAULT_CONFIG ELSE Get(config)]

\* Line 128: the test that raises ValueError.
MissingTEval(initial_condition, t_eval) ==
    IsNone(t_eval) /\ IsNone(initial_condition.t_eval)

\* A faulty variant of WithFallback, for the sensitivity check of C9: the
\* batch default, when given, replaces the record's t_eval.
WithFallbackOverwriting(initial_condition, t_eval) ==
    IF IsNone(t_eval)
    THEN initial_condition
    ELSE [initial_condition EXCEPT !.t_eval = t_eval]

\* Lines 131-132: the batch default is written into a record that has no
\* t_eval of its own.
WithFallback(initial_condition, t_eval) ==
    IF IsNone(initial_condition.t_eval)
    THEN [initial_condition EXCEPT !.t_eval = t_eval]
    ELSE initial_condition

\* A faulty variant of SolveIvpArgs, for the sensitivity check of C6: the
\* tolerances are the defaults of __init__, not the record's.
SolveIvpArgsDefaultTolerance(initial_condition) ==
    [y0     |-> initial_condition.point,
     t_span |-> <<First(Get(initial_condition.t_eval)),
                  Last(Get(initial_condition.t_eval))>>,
     t_eval |-> Get(initial_condition.t_eval),
     rtol   |-> "1e-6",
     atol   |-> "1e-10",
     method |-> "RK45"]

\* Lines 134-142: the arguments solve_ivp is called with.
SolveIvpArgs(initial_condition) ==
    [y0     |-> initial_condition.point,
     t_span |-> <<First(Get(initial_condition.t_eval)),
                  Last(Get(initial_condition.t_eval))>>,
     t_eval |-> Get(initial_condition.t_eval),
     rtol   |-> initial_condition.rtol,
     atol   |-> initial_condition.atol,
     method |-> "RK45"]

\* solve_ivp, a black box that is taken to succeed: sol.y holds one row per coordinate and one column
\* per entry of t_eval, the state reached from y0 at that time.  A sample
\* stands for itself: it names its coordinate, its start and its time.
SolveIvp(a) ==
    <<[k \in 1..Len(a.t_eval) |-> <<"x", a.y0, a.t_eval[k]>>],
      [k \in 1..Len(a.t_eval) |-> <<"y", a.y0, a.t_eval[k]>>]>>

\* Lines 144-151: the plot_trajectory call on the solution.  Subscripting a
\* list config with "arrow_span" raises TypeError while the arguments are
\* evaluated, before plot_trajectory runs.
Render(sol_y, initial_condition) ==
    IF initial_condition.config.kind = "list"
    THEN [drawn |-> <<>>, err |-> "TypeError"]
    ELSE PlotTrajectoryResult(<<sol_y[1], sol_y[2]>>,
                              initial_condition.color,
                              initial_condition.config.arrow_span,
                              initial_condition.arrow_color,
                              initial_condition.config.number_of_arrow,
                              initial_condition.t_eval)

(***************************************************************************)
(* PhasePortrait.save                                                      *)
(***************************************************************************)
\* str.startswith and str.endswith on a name, a sequence of characters.
StartsWith(name, prefix) ==
    Len(name) >= Len(prefix) /\ SubSeq(name, 1, Len(prefix)) = prefix

EndsWith(name, suffix) ==
    Len(name) >= Len(suffix)
        /\ SubSeq(name, Len(name) - Len(suffix) + 1, Len(name)) = suffix

\* The decimal digits of a natural number, as the f-string of line 197
\* formats file_count + 1.
RECURSIVE Str(_)
Str(n) ==
    LET digit == <<"0", "1", "2", "3", "4", "5", "6", "7", "8", "9">>[(n % 10) + 1]
    IN  IF n < 10 THEN <<digit>> ELSE Append(Str(n \div 10), digit)

\* A faulty variant of FileCount, for the sensitivity check of C5: every
\* name of the listing is counted.
FileCountUnfiltered(listing) == Cardinality(listing)

\* Lines 190-196: the number of names in the listing that start with
\* "plot_" and end with ".pdf".
FileCount(listing) ==
    Cardinality({name \in listing :
                    /\ StartsWith(name, <<"p", "l", "o", "t", "_">>)
                    /\ EndsWith(name, <<".", "p", "d", "f">>)})

\* Line 197: the name inside the directory, f"plot_{file_count + 1}.pdf".
ImageName(file_count) ==
    <<"p", "l", "o", "t", "_">> \o Str(file_count + 1) \o <<".", "p", "d", "f">>

\* A faulty variant of WriteFile, for the sensitivity check of C8: an
\* existing file keeps its content.
WriteFileKeepingExisting(dir, name, content) ==
    [n \in DOMAIN dir \cup {name} |-> IF n \in DOMAIN dir THEN dir[n] ELSE content]

\* Line 198: savefig creates the file or replaces the content of an
\* existing one.
WriteFile(dir, name, content) ==
    [n \in DOMAIN dir \cup {name} |-> IF n = name THEN content ELSE dir[n]]

(***************************************************************************)
(* Inputs of a plot_trajectory call                                        *)
(***************************************************************************)
MaxLen == 30

MaxSpan == 20

MaxArrows == 5

\* A time schedule of n samples, ascending 0..n-1 or descending n-1..0.
Ascending(n) == [k \in 1..n |-> k - 1]

Descending(n) == [k \in 1..n |-> n - k]

\* The sample stored at 0-based position i of the arrays x and y.
SampleX(i) == <<"x", i>>

SampleY(i) == <<"y", i>>

\* A solved trajectory of n samples: solution = [x, y], two arrays of equal
\* length, each element standing for itself (it names its own position).
Trajectory(n) == <<[k \in 1..n |-> SampleX(k - 1)], [k \in 1..n |-> SampleY(k - 1)]>>

NoFiles == [name \in {} |-> 0]

NoProc == [p \in {} |-> 0]

\* The state of the parts of the program a specification does not run.
BatchIdle ==
    /\ ics = <<>> /\ constructed = <<>> /\ invocations = <<>>
    /\ pos = 0 /\ solved = <<>>

SaveIdle ==
    /\ dir_exists = FALSE /\ files = NoFiles /\ files0 = NoFiles
    /\ saved = <<>> /\ proc = NoProc

batchVars == <<ics, constructed, invocations, pos, solved>>

saveVars == <<dir_exists, files, files0, saved, proc>>

(***************************************************************************)
(* Specification SpecTrajectory: one plot_trajectory call on a fresh       *)
(* figure, for every trajectory length, arrow_span, number_of_arrow and    *)
(* kind of t_eval within the bounds.                                       *)
(***************************************************************************)
InitTrajectory ==
    /\ \E n \in 1..MaxLen, s \in 1..MaxSpan, k \in 0..MaxArrows :
         \E t \in {None, Some(Ascending(n)), Some(Descending(n))} :
            args = [solution        |-> Trajectory(n),
                    color           |-> "black",
                    arrow_span      |-> s,
                    arrow_color     |-> "black",
                    number_of_arrow |-> k,
                    t_eval          |-> t]
    /\ ax = <<>>
    /\ pc = "ready"
    /\ err = "none"
    /\ BatchIdle
    /\ SaveIdle

\* Lines 51-100: the call; an IndexError leaves what was drawn before it.
PlotTrajectory ==
    /\ pc = "ready"
    /\ LET r == PlotTrajectoryResult(args.solution, args.color, args.arrow_span,
                                     args.arrow_color, args.number_of_arrow,
                                     args.t_eval)
       IN  /\ ax' = ax \o r.drawn
           /\ err' = r.err
    /\ pc' = "done"
    /\ UNCHANGED <<args, batchVars, saveVars>>

NextTrajectory == PlotTrajectory

SpecTrajectory == InitTrajectory /\ [][NextTrajectory]_vars

(***************************************************************************)
(* Claims about plot_trajectory                                            *)
(***************************************************************************)
\* The arrows on the axes, in drawing order.
Arrows == SelectSeq(ax, LAMBDA a : a.kind = "arrow")

NumSamples == Len(args.solution[1])

\* Both coordinates of the sample at 0-based position i.
Sample(i) == <<SampleX(i), SampleY(i)>>

\* The 0-based position of the sample an arrow endpoint was read from.
PositionOf(endpoint) == endpoint[1][2]

\* The physical time of the sample at position i: the schedule's entry, and
\* the array order when no schedule is given.
TimeOf(i) == IF IsNone(args.t_eval) THEN i ELSE Get(args.t_eval)[i + 1]

\* The arrows plot_trajectory has to draw: those of the number_of_arrow
\* indices s, 2s, ... that lie inside the trajectory.
ArrowsInside == {k \in 1..args.number_of_arrow : k * args.arrow_span < NumSamples}

\* C1: with arrow_span >= 2 the call completes without raising, an arrow
\* whose index reaches or exceeds the number of samples is skipped, and the
\* arrows drawn are exactly those at the indices s, 2s, ... inside the
\* trajectory (all n of them when L >= s + n*s).
C1_SkipWithoutError ==
    (pc = "done" /\ args.arrow_span >= 2) =>
        /\ err = "none"
        /\ Len(Arrows) = Cardinality(ArrowsInside)
        /\ \A j \in 1..Len(Arrows) :
              {Arrows[j].xy, Arrows[j].xytext}
                  = {Sample(j * args.arrow_span), Sample(j * args.arrow_span - 2)}

\* C2: the j-th arrow drawn, at index i = j*s, has tail sample i-2 and head
\* sample i under an ascending or absent schedule, tail sample i and head
\* sample i-2 under a descending one, so that the head is always the later
\* of the two in physical time.
C2_ArrowDirection ==
    pc = "done" =>
        \A j \in 1..Len(Arrows) :
            LET i == j * args.arrow_span
                a == Arrows[j]
            IN  /\ i - 2 >= 0
                /\ IF IsReverse(args.t_eval)
                   THEN a.xytext = Sample(i) /\ a.xy = Sample(i - 2)
                   ELSE a.xytext = Sample(i - 2) /\ a.xy = Sample(i)
                /\ TimeOf(PositionOf(a.xy)) > TimeOf(PositionOf(a.xytext))

\* C10: for every positive arrow_span, both endpoints of every arrow drawn
\* are the samples at positions i and i-2 with 0 <= i-2 < i < L; no endpoint
\* is reached by wrapping around to the end of the array.
C10_EndpointsInRange ==
    pc = "done" =>
        \A j \in 1..Len(Arrows) :
            \E i \in 2..(NumSamples - 1) :
                {Arrows[j].xy, Arrows[j].xytext} = {Sample(i), Sample(i - 2)}

(***************************************************************************)
(* Specification SpecBatch: plot_trajectories calls, one after another, on *)
(* one list of InitialCondition objects.  A call is followed record by     *)
(* record; an exception ends it, and the caller may call again.            *)
(***************************************************************************)
MaxRecords == 2

MaxCalls == 2

LongLen == 22

ShortLen == 3

Schedules == {Ascending(LongLen), Descending(LongLen), Ascending(ShortLen)}

OptionalSchedules == {None} \cup {Some(t) : t \in Schedules}

CustomConfig == [kind |-> "dict", arrow_span |-> 2, number_of_arrow |-> 2]

ListConfig == [kind |-> "list", items |-> <<DEFAULT_CONFIG, CustomConfig>>]

OptionalConfigs == {None, Some(CustomConfig), Some(ListConfig)}

\* The i-th record of the list: its point, tolerances and colours are
\* fixed by its position (the defaults of __init__ at odd positions), its
\* t_eval and config are free.
Record(i, t_eval, config) ==
    IF i % 2 = 1
    THEN InitialCondition(<<i, 0>>, t_eval, "1e-6", "1e-10", "black", "black", config)
    ELSE InitialCondition(<<i, 0>>, t_eval, "1e-8", "1e-12", "red", "blue", config)

InitBatch ==
    /\ \E n \in 1..MaxRecords :
         \E ts \in [1..n -> OptionalSchedules], cs \in [1..n -> OptionalConfigs] :
            ics = [i \in 1..n |-> Record(i, ts[i], cs[i])]
    /\ constructed = ics
    /\ invocations = <<>>
    /\ pos = 0
    /\ solved = <<>>
    /\ ax = <<>>
    /\ pc = "idle"
    /\ err = "none"
    /\ args = None
    /\ SaveIdle

\* The t_eval argument of the running (or last) call.
BatchTEval == invocations[Len(invocations)]

\* Line 113-126: plot_trajectories(initial_conditions_list, t_eval) is called
\* and reaches the head of its loop.
CallPlotTrajectories ==
    /\ pc = "idle"
    /\ Len(invocations) < MaxCalls
    /\ \E t_eval \in OptionalSchedules : invocations' = Append(invocations, t_eval)
    /\ pos' = 1
    /\ pc' = "loop"
    /\ err' = "none"
    /\ UNCHANGED <<args, ax, ics, constructed, solved, saveVars>>

\* Lines 128-129: no t_eval from either source: ValueError ends the call.
RaiseValueError ==
    /\ pc = "loop"
    /\ pos <= Len(ics)
    /\ MissingTEval(ics[pos], BatchTEval)
    /\ err' = "ValueError"
    /\ pc' = "idle"
    /\ UNCHANGED <<args, ax, ics, constructed, invocations, pos, solved, saveVars>>

\* Lines 131-151: one pass of the loop body: the fallback is written, the
\* solver runs, the trajectory is rendered.  An exception of the rendering
\* ends the call with the record already written and the solver already run.
Iterate ==
    /\ pc = "loop"
    /\ pos <= Len(ics)
    /\ ~MissingTEval(ics[pos], BatchTEval)
    /\ LET initial_condition == WithFallback(ics[pos], BatchTEval)
           a == SolveIvpArgs(initial_condition)
           r == Render(SolveIvp(a), initial_condition)
       IN  /\ ics' = [ics EXCEPT ![pos] = initial_condition]
           /\ solved' = Append(solved, [call |-> Len(invocations), rec |-> pos, kw |-> a])
           /\ ax' = ax \o r.drawn
           /\ err' = r.err
           /\ IF r.err = "none"
              THEN pos' = pos + 1 /\ pc' = "loop"
              ELSE pos' = pos /\ pc' = "idle"
    /\ UNCHANGED <<args, constructed, invocations, saveVars>>

\* Line 126: the list is exhausted and the call returns.
ReturnFromPlotTrajectories ==
    /\ pc = "loop"
    /\ pos > Len(ics)
    /\ pc' = "idle"
    /\ UNCHANGED <<args, ax, err, ics, constructed, invocations, pos, solved, saveVars>>

NextBatch ==
    \/ CallPlotTrajectories
    \/ RaiseValueError
    \/ Iterate
    \/ ReturnFromPlotTrajectories

SpecBatch == InitBatch /\ [][NextBatch]_vars

(***************************************************************************)
(* Claims about plot_trajectories                                          *)
(***************************************************************************)
\* The solve_ivp calls of invocation c, and those for the record at position i.
SolvedInCall(c) == {k \in 1..Len(solved) : solved[k].call = c}

SolvedForRecord(i) == {k \in 1..Len(solved) : solved[k].rec = i}

Min(S) == CHOOSE k \in S : \A m \in S : k <= m

\* C3: when a call without a batch default ends with the configuration
\* error (ValueError) for a record without a t_eval, whatever that record's
\* position, no solver call has been made in that invocation.
C3_RaisesBeforeAnySolve ==
    err = "ValueError" => SolvedInCall(Len(invocations)) = {}

\* C7: when a record carries a configuration list whose length differs from
\* the number of initial conditions, no integration (solver call) begins.
C7_ConfigLengthChecked ==
    (\E i \in 1..Len(ics) :
        /\ ics[i].config.kind = "list"
        /\ Len(ics[i].config.items) # Len(ics))
    => solved = <<>>

\* C6: every pass of the loop integrates the record over its own t_eval when
\* it has one and over the batch default only when it has none, with the
\* record's own point, rtol and atol, and renders the solution of exactly
\* that schedule with the record's own color, arrow_color and config (the
\* reverse-time test is made on the same schedule).
C6_PassUsesOwn ==
    LET ic  == ics[pos]
        own == IF IsNone(ic.t_eval) THEN Get(BatchTEval) ELSE Get(ic.t_eval)
        e   == solved'[Len(solved')]
        sol == <<[k \in 1..Len(own) |-> <<"x", ic.point, own[k]>>],
                 [k \in 1..Len(own) |-> <<"y", ic.point, own[k]>>]>>
    IN  Len(solved') = Len(solved) + 1 =>
            /\ e.kw.t_eval = own
            /\ e.kw.t_span = <<own[1], own[Len(own)]>>
            /\ e.kw.y0 = ic.point
            /\ e.kw.rtol = ic.rtol
            /\ e.kw.atol = ic.atol
            /\ ic.config.kind = "dict" =>
                  ax' = ax \o PlotTrajectoryResult(sol, ic.color, ic.config.arrow_span,
                                                   ic.arrow_color,
                                                   ic.config.number_of_arrow,
                                                   Some(own)).drawn

\* C6, as a property of every step: each pass of the loop uses the record's
\* own t_eval, tolerances, colours and config, and the batch default only
\* for a record without a t_eval.
C6_OwnTEvalFirst == [][C6_PassUsesOwn]_vars

\* C6's case: in one call with a batch default, a record with a t_eval of
\* its own running the other way and a record without one have both been
\* integrated and rendered.
C6_Witness ==
    /\ Len(invocations) > 0
    /\ pc = "idle"
    /\ err = "none"
    /\ ~IsNone(BatchTEval)
    /\ \E k1, k2 \in SolvedInCall(Len(invocations)) :
          /\ ~IsNone(constructed[solved[k1].rec].t_eval)
          /\ IsReverse(Some(solved[k1].kw.t_eval)) # IsReverse(BatchTEval)
          /\ IsNone(constructed[solved[k2].rec].t_eval)
          /\ solved[k2].kw.t_eval = Get(BatchTEval)
    /\ Len(SelectSeq(ax, LAMBDA a : a.kind = "line")) = Len(solved)

\* C9: the fallback is written into the record and stays.  A record built
\* without a t_eval holds, from its first pass on, the batch default of the
\* call that made that pass, and every later pass integrates it over that
\* schedule whatever the later call's default; a call without a default
\* raises only for a record no pass has processed.  A record built with a
\* t_eval keeps it, and every record keeps its point, rtol, atol, color,
\* arrow_color and config.
C9_StickyFallback ==
    /\ Len(ics) = Len(constructed)
    /\ \A i \in 1..Len(ics) :
          /\ [ics[i] EXCEPT !.t_eval = None] = [constructed[i] EXCEPT !.t_eval = None]
          /\ ~IsNone(constructed[i].t_eval) => ics[i].t_eval = constructed[i].t_eval
          /\ IsNone(constructed[i].t_eval) =>
                IF SolvedForRecord(i) = {}
                THEN IsNone(ics[i].t_eval)
                ELSE LET first == invocations[solved[Min(SolvedForRecord(i))].call]
                     IN  /\ ~IsNone(first)
                         /\ ics[i].t_eval = first
                         /\ \A k \in SolvedForRecord(i) : solved[k].kw.t_eval = Get(first)
    /\ err = "ValueError" => SolvedForRecord(pos) = {} /\ IsNone(BatchTEval)

\* C9's case: a record built without a t_eval was integrated in one call
\* under its default and again in a later call that gave another default.
C9_Witness ==
    /\ pc = "idle"
    /\ err = "none"
    /\ Len(solved) = Len(ics) * Len(invocations)
    /\ \E k1, k2 \in 1..Len(solved) :
           /\ solved[k1].rec = solved[k2].rec
           /\ IsNone(constructed[solved[k1].rec].t_eval)
           /\ solved[k1].call < solved[k2].call
           /\ ~IsNone(invocations[solved[k2].call])
           /\ invocations[solved[k2].call] # invocations[solved[k1].call]

(***************************************************************************)
(* Specification SpecSave: save() calls, one after another, by one         *)
(* process into one directory, which at first is missing or holds any set  *)
(* of the names below.  A file's content is 0 when it was there before the *)
(* first save and k when the k-th save wrote it.                           *)
(***************************************************************************)
MaxSaves == 3

\* plot_<d>.pdf for a one-character d.
PlotFile(d) == <<"p", "l", "o", "t", "_", d, ".", "p", "d", "f">>

OtherNames ==
    { PlotFile("a"),
      <<"p", "l", "o", "t", "_", "1", ".", "p", "n", "g">>,
      <<"n", "o", "t", "e", "s", ".", "p", "d", "f">> }

ExistingNames == {PlotFile("1"), PlotFile("2"), PlotFile("3")} \cup OtherNames

InitDirectory ==
    /\ dir_exists \in BOOLEAN
    /\ \E present \in SUBSET ExistingNames :
          files = [name \in (IF dir_exists THEN present ELSE {}) |-> 0]
    /\ files0 = files
    /\ saved = <<>>

InitSave ==
    /\ InitDirectory
    /\ proc = NoProc
    /\ args = None
    /\ ax = <<>>
    /\ pc = "idle"
    /\ err = "none"
    /\ BatchIdle

\* Lines 186-199: one whole save() call.
Save ==
    /\ Len(saved) < MaxSaves
    /\ LET image_name == ImageName(FileCount(DOMAIN files))
       IN  /\ dir_exists' = TRUE
           /\ files' = WriteFile(files, image_name, Len(saved) + 1)
           /\ saved' = Append(saved, [by |-> 0, name |-> image_name])
    /\ UNCHANGED <<args, ax, pc, err, batchVars, files0, proc>>

NextSave == Save

SpecSave == InitSave /\ [][NextSave]_vars

(***************************************************************************)
(* Specification SpecSaveConcurrent: two processes, each running save()    *)
(* once on the same directory, their file-system calls interleaved.  A     *)
(* file's content is 0 when it was there before, p when process p wrote it.*)
(***************************************************************************)
Procs == {1, 2}

InitSaveConcurrent ==
    /\ InitDirectory
    /\ proc = [p \in Procs |-> [pc |-> "exists", file_count |-> 0]]
    /\ args = None
    /\ ax = <<>>
    /\ pc = "idle"
    /\ err = "none"
    /\ BatchIdle

\* Line 188: os.path.exists(path).
Exists(p) ==
    /\ proc[p].pc = "exists"
    /\ proc' = [proc EXCEPT ![p].pc = IF dir_exists THEN "listdir" ELSE "makedirs"]
    /\ UNCHANGED <<args, ax, pc, err, batchVars, dir_exists, files, files0, saved>>

\* Line 189: os.makedirs(path) creates the directory, and raises
\* FileExistsError when it has been created in the meantime.
MakeDirs(p) ==
    /\ proc[p].pc = "makedirs"
    /\ proc' = [proc EXCEPT ![p].pc = IF dir_exists THEN "FileExistsError" ELSE "listdir"]
    /\ dir_exists' = TRUE
    /\ UNCHANGED <<args, ax, pc, err, batchVars, files, files0, saved>>

\* Lines 190-196: os.listdir(path) and the count.
ListDir(p) ==
    /\ proc[p].pc = "listdir"
    /\ proc' = [proc EXCEPT ![p].pc = "savefig",
                            ![p].file_count = FileCount(DOMAIN files)]
    /\ UNCHANGED <<args, ax, pc, err, batchVars, dir_exists, files, files0, saved>>

\* Lines 197-198: the name is formatted and the file written.
SaveFig(p) ==
    /\ proc[p].pc = "savefig"
    /\ LET image_name == ImageName(proc[p].file_count)
       IN  /\ files' = WriteFile(files, image_name, p)
           /\ saved' = Append(saved, [by |-> p, name |-> image_name])
    /\ proc' = [proc EXCEPT ![p].pc = "done"]
    /\ UNCHANGED <<args, ax, pc, err, batchVars, dir_exists, files0>>

NextSaveConcurrent ==
    \E p \in Procs :
        \/ Exists(p)
        \/ MakeDirs(p)
        \/ ListDir(p)
        \/ SaveFig(p)

SpecSaveConcurrent == InitSaveConcurrent /\ [][NextSaveConcurrent]_vars

(***************************************************************************)
(* Claims about save                                                       *)
(***************************************************************************)
\* C4: save never overwrites a file that exists: every file that was in the
\* directory before the first save keeps its content, and so does the
\* output of every earlier save.
C4_NeverOverwrites ==
    /\ \A name \in DOMAIN files0 : files[name] = files0[name]
    /\ \A k \in 1..Len(saved) : files[saved[k].name] = k

\* The numeral of k, for k in 1..9.
Numeral(k) == <<"1", "2", "3", "4", "5", "6", "7", "8", "9">>[k]

\* The names of the listing that start with "plot_" and end with ".pdf".
Matching(listing) ==
    {name \in listing :
        /\ Len(name) >= 9
        /\ \A j \in 1..5 : name[j] = <<"p", "l", "o", "t", "_">>[j]
        /\ \A j \in 1..4 : name[Len(name) - 4 + j] = <<".", "p", "d", "f">>[j]}

\* C5: a save leaves the directory existing and adds to it (or replaces in
\* it) exactly the file plot_<n>.pdf, n one greater than the number of names
\* that start with "plot_" and end with ".pdf"; and when the directory was
\* missing or empty before the first save, the k-th save adds the new file
\* plot_<k>.pdf, so that after k saves the directory holds exactly
\* plot_1.pdf, ..., plot_k.pdf.
C5_SaveStep ==
    saved' # saved =>
        LET new == saved'[Len(saved')].name
            n   == Cardinality(Matching(DOMAIN files)) + 1
        IN  /\ dir_exists'
            /\ Len(saved') = Len(saved) + 1
            /\ new = PlotFile(Numeral(n))
            /\ DOMAIN files' = DOMAIN files \cup {new}
            /\ files'[new] = Len(saved')
            /\ \A name \in DOMAIN files \ {new} : files'[name] = files[name]
            /\ files0 = NoFiles =>
                  /\ new \notin DOMAIN files
                  /\ new = PlotFile(Numeral(Len(saved')))
                  /\ DOMAIN files' = {PlotFile(Numeral(k)) : k \in 1..Len(saved')}

\* C5, as a property of every step: each save writes plot_<n>.pdf, n one
\* past the count of matching names, and k saves into a fresh directory
\* give plot_1.pdf, ..., plot_k.pdf.
C5_NumberedOnePastCount == [][C5_SaveStep]_vars

\* C5's case: three saves into a directory that was missing or empty.
C5_Witness ==
    /\ files0 = NoFiles
    /\ Len(saved) >= 3
    /\ dir_exists
    /\ DOMAIN files = {PlotFile("1"), PlotFile("2"), PlotFile("3")}

\* C8: the listing and the write are separate steps.  When both processes
\* have listed the directory and neither has written, both hold the same
\* count, hence the same next index; and when both have written from the
\* same count, both wrote the same name, the file holds the later writer's
\* figure and the earlier writer's output is gone: the directory gained one
\* file, not two.
C8_RaceOverwrites ==
    /\ (\A p \in Procs : proc[p].pc = "savefig") =>
          proc[1].file_count = proc[2].file_count
    /\ ((\A p \in Procs : proc[p].pc = "done")
            /\ proc[1].file_count = proc[2].file_count) =>
          /\ Len(saved) = 2
          /\ saved[1].name = saved[2].name
          /\ saved[1].by # saved[2].by
          /\ files[saved[2].name] = saved[2].by
          /\ DOMAIN files = DOMAIN files0 \cup {saved[2].name}

\* C8's case: in a directory that was empty (or missing), both processes
\* counted no file, which only a listing made before either write gives,
\* and both have written: one file, plot_1.pdf, is left.
C8_Witness ==
    /\ files0 = NoFiles
    /\ \A p \in Procs : proc[p].pc = "done" /\ proc[p].file_count = 0
    /\ saved[1].name = saved[2].name
    /\ DOMAIN files = {PlotFile("1")}

====
